---- MODULE Spec2Model ----
(***************************************************************************)
(* THEMIS FIT calibration (pyspedas/themis/spacecraft/fields/fit.py) and   *)
(* the RBSP ECT loader (pyspedas/projects/rbsp/ect_combined.py).           *)
(*                                                                         *)
(* The state is the process-wide tplot store, the calibration files on the *)
(* remote server, and the locals of the most recent call.  get_data hands  *)
(* out the stored sample array itself, so the in-place assignments of      *)
(* cal_fit to d.y are assignments to the stored series th<probe>_fit;      *)
(* store_data keeps a copy of what it is given.                            *)
(*                                                                         *)
(* Numbers.  A float is NaN or a finite value.  A finite value is kept     *)
(* exactly, as a linear combination with integer coefficients of products  *)
(* of the program's constants (adc2nT, cos and sin of the rotation angle,  *)
(* 15000/(lv*2^15) for the three boom lengths).  For the small raw counts  *)
(* used here two such combinations are equal exactly when the real numbers *)
(* they denote are equal.                                                  *)
(***************************************************************************)
EXTENDS Integers, Sequences, FiniteSets, TLC

VARIABLES store, remote, last, ncalls, ndownloads, ectRemote, ect

vars == <<store, remote, last, ncalls, ndownloads, ectRemote, ect>>

(* ------------------------------ bounds -------------------------------- *)

\* largest number of samples of a raw series
MaxN == 2
\* largest number of records of a calibration table
MaxCal == 2
\* largest number of cal_fit calls that find their raw series
MaxCalls == 2
\* largest number of probes in the list given to ect_combined
MaxProbes == 2
\* largest number of daily ECT files the server holds for one probe
MaxFiles == 2

(* --------------------------- float values ----------------------------- *)

Syms == {"adc2nT", "cs", "sn", "k12", "k34", "k56"}

M0 == [s \in Syms |-> 0]

Mono(s) == [t \in Syms |-> IF t = s THEN 1 ELSE 0]

MAdd(m1, m2) == [s \in Syms |-> m1[s] + m2[s]]

NaN == [nan |-> TRUE, terms |-> {}]

Zero == [nan |-> FALSE, terms |-> {}]

Num(x) == IF x = 0 THEN Zero ELSE [nan |-> FALSE, terms |-> {[m |-> M0, c |-> x]}]

IsNaN(v) == v.nan

\* a program constant: sign times one symbol (or times 1)
Const(sign, m) == [m |-> m, c |-> sign]

\* k * v for a program constant k
Scale(k, v) ==
    IF v.nan THEN NaN
    ELSE [nan |-> FALSE,
          terms |-> {[m |-> MAdd(t.m, k.m), c |-> t.c * k.c] : t \in v.terms}]

Coef(v, m) == IF \E t \in v.terms : t.m = m
              THEN (CHOOSE t \in v.terms : t.m = m).c
              ELSE 0

Add(a, b) ==
    IF a.nan \/ b.nan THEN NaN
    ELSE LET ms == {t.m : t \in a.terms \cup b.terms}
         IN  [nan |-> FALSE,
              terms |-> {[m |-> m, c |-> Coef(a, m) + Coef(b, m)] :
                            m \in {mm \in ms : Coef(a, mm) + Coef(b, mm) # 0}}]

Neg(a) == Scale(Const(-1, M0), a)

Sub(a, b) == Add(a, Neg(b))

(* ------------------------ calibration parameters ---------------------- *)

\* 15000 / (lv * 2^15) for lv12, lv34, lv56
K12 == Mono("k12")
K34 == Mono("k34")
K56 == Mono("k56")

cpar ==
    [e12 |-> [Ascale |-> Const(-1, K12), Bscale |-> Const(-1, K12),
              Cscale |-> Const(-1, K12), sigscale |-> Const(1, K12),
              Zscale |-> Const(-1, K56)],
     e34 |-> [Ascale |-> Const(-1, K34), Bscale |-> Const(-1, K34),
              Cscale |-> Const(-1, K34), sigscale |-> Const(1, K34),
              Zscale |-> Const(-1, K56)],
     b   |-> [Ascale |-> Const(1, M0), Bscale |-> Const(1, M0),
              Cscale |-> Const(1, M0), sigscale |-> Const(1, M0),
              Zscale |-> Const(1, M0)]]

adc2nT == Const(1, Mono("adc2nT"))

\* probe number in the cal tables
sclist == [a |-> 0, b |-> 1, c |-> 2, d |-> 3, e |-> 4, f |-> -1]

\* rotation angles in hundredths of a degree, one entry per probe a..e
rotBxy_angles == <<2995, 2995, 2995, 2995, 2995>>

\* Python list indexing: the 1-based position that index k selects
PyIndex(list, k) == IF k >= 0 THEN k + 1 ELSE Len(list) + k + 1

\* math.cos / math.sin of the rotation angle
cs == Const(1, Mono("cs"))
sn == Const(1, Mono("sn"))

\* regime codes of th<probe>_fit_code
e1 == 225
e5 == 229
e3 == 227
e7 == 231

(* ------------------------------ the store ----------------------------- *)

\* the probes exercised: a regular probe and the probe without cal files
Probes == {"a", "f"}

TName(probe, suffix) == "th" \o probe \o suffix

RemoteName(probe) == "th" \o probe \o "/l1/fgm/0000/" \o "th" \o probe \o "_fgmcal.txt"

Put(st, name, val) ==
    [n \in DOMAIN st \cup {name} |-> IF n = name THEN val ELSE st[n]]

\* rows of a sequence selected by a boolean mask, in order
RECURSIVE MaskSel(_, _)
MaskSel(seq, mask) ==
    IF seq = <<>> THEN <<>>
    ELSE IF Head(mask) THEN <<Head(seq)>> \o MaskSel(Tail(seq), Tail(mask))
         ELSE MaskSel(Tail(seq), Tail(mask))

\* an array given element by element, as a sequence
Arr(f) == <<>> \o f

AnyTrue(mask) == \E j \in DOMAIN mask : mask[j]

Count(mask) == Cardinality({j \in DOMAIN mask : mask[j]})

SetMax(S) == CHOOSE x \in S : \A y \in S : y <= x

SetMin(S) == CHOOSE x \in S : \A y \in S : x <= y

Range(seq) == {seq[j] : j \in DOMAIN seq}

(* -------------------------- 3x3 linear algebra ------------------------ *)

\* np.c_[u, v, w]: the matrix whose columns are u, v, w
ColStack(u, v, w) == [i \in 1..3 |-> <<u[i], v[i], w[i]>>]

Transpose(M) == [i \in 1..3 |-> [j \in 1..3 |-> M[j][i]]]

MatMul(A, B) ==
    [i \in 1..3 |-> [j \in 1..3 |->
        A[i][1] * B[1][j] + A[i][2] * B[2][j] + A[i][3] * B[3][j]]]

MatVec(A, v) ==
    [i \in 1..3 |-> A[i][1] * v[1] + A[i][2] * v[2] + A[i][3] * v[3]]

Det3(M) ==
      M[1][1] * (M[2][2] * M[3][3] - M[2][3] * M[3][2])
    - M[1][2] * (M[2][1] * M[3][3] - M[2][3] * M[3][1])
    + M[1][3] * (M[2][1] * M[3][2] - M[2][2] * M[3][1])

Nxt(i) == (i % 3) + 1

\* numpy.linalg.inv by the adjugate; the tables used here have determinant
\* 1 or -1, so the division is exact
Inv3(M) ==
    LET det == Det3(M)
    IN  [i \in 1..3 |-> [j \in 1..3 |->
            (  M[Nxt(j)][Nxt(i)] * M[Nxt(Nxt(j))][Nxt(Nxt(i))]
             - M[Nxt(j)][Nxt(Nxt(i))] * M[Nxt(Nxt(j))][Nxt(i)]) \div det]]

\* -1 * np.fliplr(np.identity(3))
flipxz == <<<<0, 0, -1>>, <<0, -1, 0>>, <<-1, 0, 0>>>>

(* --------------------------- Bz offset -------------------------------- *)

\* a row of the calibration file: time, offi (3 columns), cali (9 columns)
CalTime(row) == row[1]

Offi(row) == <<row[2], row[3], row[4]>>

Cali(row) == [k \in 1..9 |-> row[4 + k]]

\* the last element of offi2 for one calibration record
Offi2Z(row) ==
    LET cali == Cali(row)
        M == MatMul(Transpose(ColStack(<<cali[1], cali[2], cali[3]>>,
                                       <<cali[4], cali[5], cali[6]>>,
                                       <<cali[7], cali[8], cali[9]>>)), flipxz)
        offi2 == MatVec(Inv3(M), Offi(row))
    IN  Num(offi2[3])

\* the for loop over the restricted records lo..hi
RECURSIVE BzLoop(_, _, _, _, _)
BzLoop(t, hi, caldata, times, Bz) ==
    IF t > hi THEN Bz
    ELSE LET off == Offi2Z(caldata[t])
             caltime == CalTime(caldata[t])
         IN  BzLoop(t + 1, hi, caldata, times,
                    Arr([j \in DOMAIN times |-> IF times[j] >= caltime THEN off ELSE Bz[j]]))

\* records strictly before the first sample / at or before the last sample
T1(caldata, times) ==
    {r \in DOMAIN caldata : CalTime(caldata[r]) < SetMin(Range(times))}

T2(caldata, times) ==
    {r \in DOMAIN caldata : CalTime(caldata[r]) <= SetMax(Range(times))}

\* variant of the guard: demands more than two records in all
RangeGuardStrict(t1, t2) == Cardinality(t1) + Cardinality(t2) > 2

\* "Time range exist in the file"
RangeGuard(t1, t2) == Cardinality(t1) + Cardinality(t2) > 1

\* variant of the initial offsets: ones for zeros
BzInitOnes(times) == Arr([j \in DOMAIN times |-> Num(1)])

BzInit(times) == Arr([j \in DOMAIN times |-> Zero])

\* Bzoffset, or the IndexError of t1[-1] / t2[-1] on an empty array
BzOffsets(caldata, times) ==
    LET t1 == T1(caldata, times)
        t2 == T2(caldata, times)
    IN  IF RangeGuard(t1, t2)
        THEN IF t1 = {} \/ t2 = {}
             THEN [raised |-> TRUE, Bz |-> <<>>]
             ELSE [raised |-> FALSE,
                   Bz |-> BzLoop(SetMax(t1), SetMax(t2), caldata, times,
                                 BzInit(times))]
        ELSE [raised |-> FALSE, Bz |-> BzInit(times)]

(* ------------------------- B-field stage ------------------------------ *)

\* a sample is <<E row, B row>> (i = 0, i = 1); a row is <<A, B, C, sigma, Z>>
ERow(sample) == sample[1]

BRow(sample) == sample[2]

\* d.y[:, 1, k] = cpar['b'][...] * d.y[:, 1, k] * adc2nT, in place
BScaleRow(row) ==
    <<Scale(adc2nT, Scale(cpar.b.Ascale, row[1])),
      Scale(adc2nT, Scale(cpar.b.Bscale, row[2])),
      Scale(adc2nT, Scale(cpar.b.Cscale, row[3])),
      Scale(adc2nT, Scale(cpar.b.sigscale, row[4])),
      Scale(adc2nT, Scale(cpar.b.Zscale, row[5]))>>

ScaleB(y) == Arr([j \in DOMAIN y |-> <<ERow(y[j]), BScaleRow(BRow(y[j]))>>])

Bxprime(row) == Add(Scale(cs, row[2]), Scale(sn, row[3]))

Byprime(row) == Add(Neg(Scale(sn, row[2])), Scale(cs, row[3]))

Bzprime(row, off) == Sub(Neg(row[5]), off)

\* dprime.y[:, 1, [1, 2, 4]]
Fgs(y, Bz) ==
    Arr([j \in DOMAIN y |->
        <<Bxprime(BRow(y[j])), Byprime(BRow(y[j])), Bzprime(BRow(y[j]), Bz[j])>>])

\* variant of the NaN filter: keeps every sample
FgsIdxAll(fgs) == Arr([j \in DOMAIN fgs |-> TRUE])

\* ~np.isnan(fgs[:, 0])
FgsIdx(fgs) == Arr([j \in DOMAIN fgs |-> ~IsNaN(fgs[j][1])])

FgsData(times, fgs, idx) == [x |-> MaskSel(times, idx), y |-> MaskSel(fgs, idx)]

\* variant of the sigma series: all timestamps against the kept samples
SigmaDataAllTimes(times, y, idx) ==
    [x |-> times,
     y |-> MaskSel(Arr([j \in DOMAIN y |-> BRow(y[j])[4]]), idx)]

SigmaData(times, y, idx) ==
    [x |-> MaskSel(times, idx),
     y |-> MaskSel(Arr([j \in DOMAIN y |-> BRow(y[j])[4]]), idx)]

BfitData(times, y) == [x |-> times, y |-> Arr([j \in DOMAIN y |-> BRow(y[j])])]

(* ------------------------- E-field stage ------------------------------ *)

\* column 0 of the code series against the regime codes
E12Mask(codes) == Arr([j \in DOMAIN codes |-> codes[j][1] = e1 \/ codes[j][1] = e5])

\* variant of the e34 mask: 0xE5 taken for an e34 code as well
E34MaskWithE5(codes) ==
    Arr([j \in DOMAIN codes |->
            codes[j][1] = e3 \/ codes[j][1] = e7 \/ codes[j][1] = e5])

E34Mask(codes) == Arr([j \in DOMAIN codes |-> codes[j][1] = e3 \/ codes[j][1] = e7])

\* the defaults when th<probe>_fit_code is not in the store
E12Default(n) == Arr([j \in 1..n |-> TRUE])

E34Default(n) == Arr([j \in 1..n |-> FALSE])

\* ~np.isnan(efs[:, 0]) with efs = d.y[:, 0, [1, 2, 3]]
EfsxGood(y) == Arr([j \in DOMAIN y |-> ~IsNaN(ERow(y[j])[2])])

\* d.y[e34_ss, 0, [2, 1, 4]]: the k selected sample indices are broadcast
\* against the 3 channel indices, which numpy accepts only for k = 1 or k = 3
Broadcasts(k) == k = 1 \/ k = 3

\* whether building the efs snapshot raises IndexError
EfsRaises(y, e34_ss) ==
    AnyTrue(EfsxGood(y)) /\ AnyTrue(e34_ss) /\ ~Broadcasts(Count(e34_ss))

\* e34_ss.nonzero(): the selected sample indices, ascending
Nonzero(mask) ==
    [k \in 1..Count(mask) |->
        CHOOSE j \in DOMAIN mask :
            mask[j] /\ Cardinality({i \in 1..(j - 1) : mask[i]}) = k - 1]

\* efs = d.y[:, 0, [1, 2, 3]], a copy
Efs0(y) == Arr([j \in DOMAIN y |-> <<ERow(y[j])[2], ERow(y[j])[3], ERow(y[j])[4]>>])

\* d.y[e34_ss, 0, [2, 1, 4]] where it broadcasts: element c pairs channel
\* [2, 1, 4][c] with the c-th selected sample (the only one when k = 1)
E34Picked(y, e34_ss) ==
    LET picks == Nonzero(e34_ss)
        chans == <<3, 2, 5>>
    IN  [c \in 1..3 |->
            ERow(y[picks[IF Len(picks) = 1 THEN 1 ELSE c]])[chans[c]]]

\* the efs snapshot: efs[e34_ss, :] = the picked vector, on every selected
\* row, then efs[e34_ss, 0] negated
Efs(y, e34_ss) ==
    IF AnyTrue(EfsxGood(y)) /\ AnyTrue(e34_ss)
    THEN LET vec == E34Picked(y, e34_ss)
         IN  Arr([j \in DOMAIN y |->
                     IF e34_ss[j] THEN <<Neg(vec[1]), vec[2], vec[3]>>
                     ELSE Efs0(y)[j]])
    ELSE Efs0(y)

EScaleRow(par, row) ==
    <<Scale(par.Ascale, row[1]), Scale(par.Bscale, row[2]),
      Scale(par.Cscale, row[3]), Scale(par.sigscale, row[4]),
      Scale(par.Zscale, row[5])>>

\* d.y[ss, 0, k] = cpar[regime][...] * d.y[ss, 0, k], in place
ScaleRegime(par, y, ss) ==
    IF AnyTrue(ss)
    THEN Arr([j \in DOMAIN y |->
                 IF ss[j] THEN <<EScaleRow(par, ERow(y[j])), BRow(y[j])>> ELSE y[j]])
    ELSE y

ScaleE(y, e12_ss, e34_ss) ==
    ScaleRegime(cpar.e34, ScaleRegime(cpar.e12, y, e12_ss), e34_ss)

EfitData(times, y) == [x |-> times, y |-> Arr([j \in DOMAIN y |-> ERow(y[j])])]

(* ------------------------------ cal_fit ------------------------------- *)

NoLocals ==
    [rot |-> 0, Bzoffset |-> <<>>, idx |-> <<>>, e12_ss |-> <<>>,
     e34_ss |-> <<>>, written |-> <<>>]

Locals(rot, Bz, idx, e12_ss, e34_ss, written) ==
    [rot |-> rot, Bzoffset |-> Bz, idx |-> idx, e12_ss |-> e12_ss,
     e34_ss |-> e34_ss, written |-> written]

\* whether the server has th<probe>_fgmcal.txt: always for the probes with
\* a cal table entry, and either way for the probe mapped to -1
FileThere(probe) == IF sclist[probe] = -1 THEN BOOLEAN ELSE {TRUE}

\* download(...): the list of local files, empty when the remote file is absent
Download(rem, probe, there) ==
    IF there THEN <<rem[RemoteName(probe)]>> ELSE <<>>

\* cal_fit from get_data on: the store, the outcome and the locals at its end
CalFitBody(st, rem, probe, there) ==
    LET tnames == DOMAIN st
        tvar == TName(probe, "_fit")
        times == st[tvar].x
        rot == PyIndex(rotBxy_angles, sclist[probe])
        yB == ScaleB(st[tvar].y)
        stB == Put(st, tvar, [x |-> times, y |-> yB])
        calfile == Download(rem, probe, there)
    IN
    IF calfile = <<>>
    THEN [store |-> stB, outcome |-> "raised", nfiles |-> 0, efs |-> <<>>,
          locals |-> Locals(rot, <<>>, <<>>, <<>>, <<>>, <<>>)]
    ELSE
    LET bz == BzOffsets(calfile[1], times)
    IN
    IF bz.raised
    THEN [store |-> stB, outcome |-> "raised", nfiles |-> 1, efs |-> <<>>,
          locals |-> Locals(rot, <<>>, <<>>, <<>>, <<>>, <<>>)]
    ELSE
    LET fgs == Fgs(yB, bz.Bz)
        idx == FgsIdx(fgs)
        st1 == Put(stB, TName(probe, "_fgs"), FgsData(times, fgs, idx))
        st2 == Put(st1, TName(probe, "_fgs_sigma"), SigmaData(times, yB, idx))
        st3 == Put(st2, TName(probe, "_fit_bfit"), BfitData(times, yB))
        wB == <<TName(probe, "_fgs"), TName(probe, "_fgs_sigma"),
                TName(probe, "_fit_bfit")>>
        cvar == TName(probe, "_fit_code")
        e12_ss == IF cvar \in tnames THEN E12Mask(st[cvar].y)
                  ELSE E12Default(Len(times))
        e34_ss == IF cvar \in tnames THEN E34Mask(st[cvar].y)
                  ELSE E34Default(Len(times))
    IN
    IF EfsRaises(yB, e34_ss)
    THEN [store |-> st3, outcome |-> "raised", nfiles |-> 1, efs |-> <<>>,
          locals |-> Locals(rot, bz.Bz, idx, e12_ss, e34_ss, wB)]
    ELSE
    LET yE == ScaleE(yB, e12_ss, e34_ss)
        st4 == Put(st3, tvar, [x |-> times, y |-> yE])
        st5 == Put(st4, TName(probe, "_fit_efit"), EfitData(times, yE))
    IN  [store |-> st5, outcome |-> "returned", nfiles |-> 1,
         efs |-> Efs(yB, e34_ss),
         locals |-> Locals(rot, bz.Bz, idx, e12_ss, e34_ss,
                           Append(wB, TName(probe, "_fit_efit")))]

\* "if not tvar in tnames: return"
Found(st, probe) == TName(probe, "_fit") \in DOMAIN st

\* variant of the early return: fetches the file and stores an empty fgs
NotFoundStoresEmpty(st, probe) ==
    [store |-> Put(st, TName(probe, "_fgs"), [x |-> <<>>, y |-> <<>>]),
     fetched |-> 1]

\* the early return: nothing stored, nothing fetched
NotFound(st, probe) == [store |-> st, fetched |-> 0]

CalFit(probe) ==
    IF ~Found(store, probe)
    THEN \E r \in {NotFound(store, probe)} :
             /\ store' = r.store
             /\ ndownloads' = ndownloads + r.fetched
             /\ last' = [op |-> "cal_fit", probe |-> probe, found |-> FALSE,
                         outcome |-> "returned", locals |-> NoLocals,
                         nfiles |-> 0, efs |-> <<>>]
             /\ UNCHANGED <<remote, ncalls, ectRemote, ect>>
    ELSE /\ ncalls < MaxCalls
         /\ \E there \in FileThere(probe) :
            \E r \in {CalFitBody(store, remote, probe, there)} :
               /\ store' = r.store
               /\ last' = [op |-> "cal_fit", probe |-> probe, found |-> TRUE,
                           outcome |-> r.outcome, locals |-> r.locals,
                           nfiles |-> r.nfiles, efs |-> r.efs]
         /\ ndownloads' = ndownloads + 1
         /\ ncalls' = ncalls + 1
         /\ UNCHANGED <<remote, ectRemote, ect>>

(* ------------------------------- inputs ------------------------------- *)

\* the five channels of a raw row, counting up from a base count
RawRow(base) == <<Num(base + 1), Num(base + 2), Num(base + 3), Num(base + 4), Num(base + 5)>>

NaNRow == <<NaN, NaN, NaN, NaN, NaN>>

\* the kinds of raw sample: regime code, E row, B row
SampleKinds ==
    <<[code |-> e1, E |-> RawRow(10), B |-> RawRow(15)],
      [code |-> e3, E |-> RawRow(20), B |-> RawRow(25)],
      [code |-> e5, E |-> RawRow(30), B |-> <<Num(36), Num(37), NaN, Num(39), Num(40)>>],
      [code |-> e7, E |-> NaNRow, B |-> RawRow(45)],
      [code |-> 0, E |-> RawRow(50), B |-> NaNRow]>>

KindSeqs == UNION {[1..n -> DOMAIN SampleKinds] : n \in 1..MaxN}

RawFit(kinds) ==
    [x |-> Arr([j \in DOMAIN kinds |-> j]),
     y |-> Arr([j \in DOMAIN kinds |-> <<SampleKinds[kinds[j]].E, SampleKinds[kinds[j]].B>>])]

RawCode(kinds) ==
    [x |-> Arr([j \in DOMAIN kinds |-> j]),
     y |-> Arr([j \in DOMAIN kinds |-> <<SampleKinds[kinds[j]].code, SampleKinds[kinds[j]].code>>])]

\* fit(probe=...): load puts th<probe>_fit, and th<probe>_fit_code when the
\* file has it, into the store
LoadFit(probe, kinds, hascode) ==
    /\ store' = IF hascode
                THEN Put(Put(store, TName(probe, "_fit"), RawFit(kinds)),
                         TName(probe, "_fit_code"), RawCode(kinds))
                ELSE Put(store, TName(probe, "_fit"), RawFit(kinds))
    /\ last' = [op |-> "fit", probe |-> probe, found |-> FALSE,
                outcome |-> "returned", locals |-> NoLocals,
                nfiles |-> 0, efs |-> <<>>]
    /\ UNCHANGED <<remote, ncalls, ndownloads, ectRemote, ect>>

\* record r of a calibration file: identity calibration matrix at odd
\* positions, a sheared one at even positions, with different offsets
CalRow(t, r) ==
    IF r % 2 = 1
    THEN <<t, 3, 5, 7, 1, 0, 0, 0, 1, 0, 0, 0, 1>>
    ELSE <<t, 2, 1, 4, 1, 1, 0, 0, 1, 0, 0, 0, 1>>

\* record times: before the first sample (0), at it (1) and after it (2);
\* sample j carries time j
CalTimes == {0, 1, 2}

TimeSeqs ==
    {ts \in UNION {[1..n -> CalTimes] : n \in 0..MaxCal} :
        \A r \in 1..(Len(ts) - 1) : ts[r] < ts[r + 1]}

Tables == {[r \in DOMAIN ts |-> CalRow(ts[r], r)] : ts \in TimeSeqs}

(* ------------- RBSP ECT loader (rbsp/ect_combined.py) ----------------- *)

\* ectRemote[prb] is the number of days of the requested time range for
\* which the server holds a combined ECT file of probe prb; ect is the
\* record of the most recent ect_combined call.

EctProbes == {"a", "b"}

\* "l1" stands for every level that is neither "l2" nor "l3"
Levels == {"l2", "l3", "l1"}

\* the probe argument: a list of probes, or one bare probe (list = FALSE,
\* the string held as the only element of v)
ProbeArgs ==
    {[list |-> FALSE, v |-> <<p>>] : p \in EctProbes}
        \cup {[list |-> TRUE, v |-> ps] :
                 ps \in UNION {[1..n -> EctProbes] : n \in 0..MaxProbes}}

\* if not isinstance(probe, list): probe = [probe]
AsList(arg) == IF arg.list THEN arg.v ELSE <<arg.v[1]>>

\* the local files download returns for one probe: one per day held
EctDownload(rem, prb, level) ==
    [d \in 1..rem[prb] |-> [prb |-> prb, level |-> level, day |-> d]]

\* order of two local paths rbsp<prb>/ECT/level<n>/.../rbsp<prb>_..._<day>
PathLess(f, g) ==
    \/ (f.prb = "a" /\ g.prb = "b")
    \/ (f.prb = g.prb /\ f.level = "l2" /\ g.level = "l3")
    \/ (f.prb = g.prb /\ f.level = g.level /\ f.day < g.day)

\* sorted(out_files)
Sorted(files) == SortSeq(files, PathLess)

\* the tplot variable a file's data goes to: one per probe and level
VarOf(f) == "rbsp" \o f.prb \o "_ect_" \o f.level

RECURSIVE Dedup(_)
Dedup(seq) ==
    IF seq = <<>> THEN <<>>
    ELSE LET init == Dedup(SubSeq(seq, 1, Len(seq) - 1))
             x == seq[Len(seq)]
         IN  IF x \in Range(init) THEN init ELSE Append(init, x)

\* pytplot's cdf_to_tplot on a list of files: the names of the variables it
\* creates, each once, in file order
CdfToTplot(files) == Dedup([k \in DOMAIN files |-> VarOf(files[k])])

\* ... and the store after it: each created variable holds the days of the
\* given files that feed it, merged in the order given
CdfStored(st, files) ==
    LET names == {VarOf(files[k]) : k \in DOMAIN files}
        days(v) == SelectSeq([k \in DOMAIN files |-> <<VarOf(files[k]), files[k].day>>],
                             LAMBDA e : e[1] = v)
    IN  [n \in DOMAIN st \cup names |->
            IF n \in names
            THEN [x |-> Arr([k \in DOMAIN days(n) |-> days(n)[k][2]]),
                  y |-> Arr([k \in DOMAIN days(n) |-> days(n)[k][2]])]
            ELSE st[n]]

\* tvars.update(tvars_o) on the keys of a dict, in insertion order
DictUpdate(keys, new) == Dedup(keys \o new)

\* the loop over the probes, from the accumulated out_files and tvars
RECURSIVE EctLoop(_, _, _, _, _, _)
EctLoop(rem, probe, level, downloadonly, notplot, acc) ==
    IF probe = <<>> THEN acc
    ELSE IF level \notin {"l2", "l3"} THEN [acc EXCEPT !.raised = TRUE]
    ELSE LET files == EctDownload(rem, Head(probe), level)
             out_files == IF files # <<>> THEN acc.out_files \o files
                          ELSE acc.out_files
             passed == Sorted(out_files)
             tvars_o == CdfToTplot(passed)
             acc2 == IF downloadonly
                     THEN [acc EXCEPT !.out_files = out_files]
                     ELSE [acc EXCEPT
                              !.out_files = out_files,
                              !.passes = Append(@, passed),
                              !.store = IF notplot THEN @ ELSE CdfStored(@, passed),
                              !.tvars = IF notplot THEN DictUpdate(@, tvars_o)
                                        ELSE @ \o tvars_o]
         IN  EctLoop(rem, Tail(probe), level, downloadonly, notplot, acc2)

\* one call; tclip to the requested range keeps every whole day loaded
EctCombinedBody(st, rem, probe, level, downloadonly, notplot, time_clip) ==
    LET r == EctLoop(rem, probe, level, downloadonly, notplot,
                     [out_files |-> <<>>, tvars |-> <<>>, passes |-> <<>>,
                      store |-> st, raised |-> FALSE])
        base == [store |-> r.store, out_files |-> r.out_files,
                 passes |-> r.passes, outcome |-> "returned",
                 kind |-> "list", files |-> <<>>, tvars |-> <<>>,
                 clipped |-> <<>>]
    IN  IF r.raised THEN [base EXCEPT !.outcome = "raised", !.kind = "none"]
        ELSE IF downloadonly
             THEN [base EXCEPT !.kind = "files", !.files = Sorted(r.out_files)]
        ELSE IF notplot
             THEN [base EXCEPT !.kind = "dict", !.tvars = r.tvars]
        ELSE [base EXCEPT !.tvars = r.tvars,
                          !.clipped = IF time_clip THEN r.tvars ELSE <<>>]

NoEctCall ==
    [op |-> "none", probe |-> <<>>, level |-> "", downloadonly |-> FALSE,
     notplot |-> FALSE, outcome |-> "returned", kind |-> "none",
     out_files |-> <<>>, passes |-> <<>>, files |-> <<>>, tvars |-> <<>>,
     clipped |-> <<>>]

EctCombined(arg, level, downloadonly, notplot, time_clip) ==
    /\ \E r \in {EctCombinedBody(store, ectRemote, AsList(arg), level,
                                 downloadonly, notplot, time_clip)} :
          /\ store' = r.store
          /\ ect' = [op |-> "ect_combined", probe |-> AsList(arg),
                     level |-> level, downloadonly |-> downloadonly,
                     notplot |-> notplot, outcome |-> r.outcome,
                     kind |-> r.kind, out_files |-> r.out_files,
                     passes |-> r.passes, files |-> r.files,
                     tvars |-> r.tvars, clipped |-> r.clipped]
    /\ UNCHANGED <<remote, last, ncalls, ndownloads, ectRemote>>

\* no ECT file on the server and no ect_combined call made
EctIdle ==
    /\ ectRemote = [p \in EctProbes |-> 0]
    /\ ect = NoEctCall

EmptyStore == [n \in {} |-> 0]

Init ==
    /\ store = EmptyStore
    /\ \E T \in Tables : remote = [n \in {RemoteName(p) : p \in Probes} |-> T]
    /\ last = [op |-> "none", probe |-> "", found |-> FALSE,
               outcome |-> "returned", locals |-> NoLocals,
               nfiles |-> 0, efs |-> <<>>]
    /\ ncalls = 0
    /\ ndownloads = 0
    /\ EctIdle

\* a session loads the raw data of one probe, once, into an empty store
Fresh == DOMAIN store = {}

Next ==
    \/ /\ Fresh
       /\ \E probe \in Probes, kinds \in KindSeqs, hascode \in BOOLEAN :
             LoadFit(probe, kinds, hascode)
    \/ \E probe \in Probes : CalFit(probe)

Spec == Init /\ [][Next]_vars

\* a session that only loads ECT data: no THEMIS series, any holdings
InitEct ==
    /\ store = EmptyStore
    /\ remote = [n \in {RemoteName(p) : p \in Probes} |-> <<>>]
    /\ last = [op |-> "none", probe |-> "", found |-> FALSE,
               outcome |-> "returned", locals |-> NoLocals,
               nfiles |-> 0, efs |-> <<>>]
    /\ ncalls = 0
    /\ ndownloads = 0
    /\ ectRemote \in [EctProbes -> 0..MaxFiles]
    /\ ect = NoEctCall

\* such a session makes one ect_combined call
FreshEct == ect.op = "none"

NextEct ==
    /\ FreshEct
    /\ \E arg \in ProbeArgs, level \in Levels,
          downloadonly \in BOOLEAN, notplot \in BOOLEAN, time_clip \in BOOLEAN :
           EctCombined(arg, level, downloadonly, notplot, time_clip)

SpecEct == InitEct /\ [][NextEct]_vars

(* ------------------------------ claims -------------------------------- *)

FitOf(p) == store[TName(p, "_fit")]

\* the last action was a cal_fit call that found th<probe>_fit
Called == last.op = "cal_fit" /\ last.found

\* ... and it got as far as storing th<probe>_fgs
WroteFgs == Called /\ TName(last.probe, "_fgs") \in Range(last.locals.written)

\* the k-th smallest element of a set of indices
KthOf(S, k) == CHOOSE j \in S : Cardinality({i \in S : i < j}) = k - 1

\* the calibration table the call read
TableOf(p) == remote[RemoteName(p)]

\* the offset derived from the latest record at or before time t, else zero
ActiveOffset(table, t) ==
    LET S == {r \in DOMAIN table : table[r][1] <= t}
    IN  IF S = {} THEN Zero ELSE Offi2Z(table[SetMax(S)])

\* C1: a cal_fit call that does not find th<probe>_fit in the store returns
\* normally, leaves every series of the store as it was (none created,
\* changed or deleted) and does not fetch the calibration file.
C1_MissingFitIsNoOp ==
    [][(last'.op = "cal_fit" /\ TName(last'.probe, "_fit") \notin DOMAIN store)
         => (/\ store' = store
             /\ ndownloads' = ndownloads
             /\ last'.outcome = "returned")]_vars

C1_Witness ==
    /\ last.op = "cal_fit"
    /\ last.outcome = "returned"
    /\ TName(last.probe, "_fit") \notin DOMAIN store
    /\ DOMAIN store # {}
    /\ ncalls > 0

\* C2: for every sample, the Bz offset that cal_fit subtracts is the offset
\* derived from the latest calibration record whose timestamp is <= the
\* sample's timestamp, and zero when there is no such record.
C2_ActiveRecordOffset ==
    WroteFgs =>
        \A j \in DOMAIN FitOf(last.probe).x :
            last.locals.Bzoffset[j] =
                ActiveOffset(TableOf(last.probe), FitOf(last.probe).x[j])

\* C3: th<probe>_fgs has exactly the samples whose first rotated channel
\* cs*B + sn*C is not NaN, at most N of them, with the timestamps of those
\* samples in their original order.
C3_FgsKeepsNonNaN ==
    WroteFgs =>
        LET raw == FitOf(last.probe)
            fgs == store[TName(last.probe, "_fgs")]
            keep == {j \in DOMAIN raw.y :
                        ~IsNaN(Add(Scale(cs, BRow(raw.y[j])[2]),
                                   Scale(sn, BRow(raw.y[j])[3])))}
        IN  /\ Len(fgs.y) = Cardinality(keep)
            /\ Len(fgs.x) = Cardinality(keep)
            /\ Len(fgs.y) <= Len(raw.x)
            /\ \A k \in 1..Cardinality(keep) : fgs.x[k] = raw.x[KthOf(keep, k)]

\* a call kept some samples and dropped others, one of them for a NaN in C only
C3_Witness ==
    /\ WroteFgs
    /\ Len(store[TName(last.probe, "_fgs")].x) = 1
    /\ Len(FitOf(last.probe).x) = 2
    /\ \E j \in DOMAIN FitOf(last.probe).y :
          /\ ~IsNaN(BRow(FitOf(last.probe).y[j])[2])
          /\ IsNaN(BRow(FitOf(last.probe).y[j])[3])

\* C4: cal_fit for the probe mapped to -1 returns without computing the
\* E-field calibration: th<probe>_fit_efit is not written and no rotation
\* angle of another probe's table entry is applied.
C4_ProbeFReturnsEarly ==
    (Called /\ sclist[last.probe] = -1) =>
        /\ last.outcome = "returned"
        /\ TName(last.probe, "_fit_efit") \notin DOMAIN store
        /\ TName(last.probe, "_fgs") \notin DOMAIN store

\* the four output series of a probe, as far as the store has them
Outputs(st, p) ==
    [n \in {TName(p, "_fgs"), TName(p, "_fgs_sigma"), TName(p, "_fit_bfit"),
            TName(p, "_fit_efit")} \cap DOMAIN st |-> st[n]]

\* C5: a second cal_fit call for the same probe, right after a first one and
\* with the same calibration file, leaves the four output series equal to
\* what they were after the first call.
C5_SecondCallSameOutputs ==
    [][(/\ Called /\ last.outcome = "returned"
        /\ last'.op = "cal_fit" /\ last'.found /\ last'.probe = last.probe
        /\ last'.outcome = "returned"
        /\ ncalls' = ncalls + 1
        /\ remote' = remote)
         => Outputs(store', last.probe) = Outputs(store, last.probe)]_vars

\* the regime masks have been computed by the last call
HasMasks == Called /\ last.locals.e12_ss # <<>>

\* C6: the regime masks are disjoint; with a code series a sample is in e12
\* iff its code is 0xE1 or 0xE5 and in e34 iff its code is 0xE3 or 0xE7;
\* without a code series every sample is in e12 and none in e34.
C6_MasksDisjoint ==
    HasMasks =>
        LET cvar == TName(last.probe, "_fit_code")
            e12 == last.locals.e12_ss
            e34 == last.locals.e34_ss
        IN  /\ Len(e12) = Len(FitOf(last.probe).x)
            /\ Len(e34) = Len(FitOf(last.probe).x)
            /\ \A j \in DOMAIN e12 :
                  /\ ~(e12[j] /\ e34[j])
                  /\ IF cvar \in DOMAIN store
                     THEN /\ e12[j] <=> store[cvar].y[j][1] \in {e1, e5}
                          /\ e34[j] <=> store[cvar].y[j][1] \in {e3, e7}
                     ELSE e12[j] /\ ~e34[j]

\* a code series in which both regimes occur
C6_Witness ==
    /\ HasMasks
    /\ TName(last.probe, "_fit_code") \in DOMAIN store
    /\ \E j \in DOMAIN last.locals.e12_ss : last.locals.e12_ss[j]
    /\ \E j \in DOMAIN last.locals.e34_ss : last.locals.e34_ss[j]

\* the regime of sample j as the code series (or its absence) gives it
RegimeOf(st, p, j) ==
    IF TName(p, "_fit_code") \notin DOMAIN st THEN "e12"
    ELSE IF st[TName(p, "_fit_code")].y[j][1] \in {e1, e5} THEN "e12"
    ELSE IF st[TName(p, "_fit_code")].y[j][1] \in {e3, e7} THEN "e34"
    ELSE "none"

\* C7: for every raw series and every code series, a cal_fit call that
\* reaches the E-field stage completes and writes th<probe>_fit_efit with
\* all N samples: e12 samples scaled once by the e12 constants, e34 samples
\* once by the e34 constants, the others raw.
C7_EfitScaledOnce ==
    [][(/\ last'.op = "cal_fit" /\ last'.found
        /\ ncalls' = ncalls + 1
        /\ last'.locals.e12_ss # <<>>)
         => LET p == last'.probe
                raw == store[TName(p, "_fit")]
                efit == store'[TName(p, "_fit_efit")]
            IN  /\ last'.outcome = "returned"
                /\ TName(p, "_fit_efit") \in DOMAIN store'
                /\ efit.x = raw.x
                /\ Len(efit.y) = Len(raw.y)
                /\ \A j \in DOMAIN raw.y :
                      efit.y[j] =
                          CASE RegimeOf(store, p, j) = "e12" ->
                                   EScaleRow(cpar.e12, ERow(raw.y[j]))
                            [] RegimeOf(store, p, j) = "e34" ->
                                   EScaleRow(cpar.e34, ERow(raw.y[j]))
                            [] OTHER -> ERow(raw.y[j])]_vars

\* the third component of every kept th<probe>_fgs sample is the negated
\* scaled Z channel of its raw sample minus off
FgsZIs(p, off) ==
    LET keep == {j \in DOMAIN last.locals.idx : last.locals.idx[j]}
        fgs == store[TName(p, "_fgs")]
        bfit == store[TName(p, "_fit_bfit")]
    IN  \A k \in 1..Len(fgs.y) :
            fgs.y[k][3] = Sub(Neg(bfit.y[KthOf(keep, k)][5]), off)

NoRecordUpToLast(table, times) ==
    ~\E r \in DOMAIN table : table[r][1] <= SetMax(Range(times))

SingleRecordBefore(table, times) ==
    Len(table) = 1 /\ table[1][1] < SetMin(Range(times))

SnapshotRow(st, p, j) ==
    LET row == ERow(st[TName(p, "_fit")].y[j])
    IN  IF RegimeOf(st, p, j) = "e34"
        THEN <<Neg(row[3]), row[2], row[5]>>
        ELSE <<row[2], row[3], row[4]>>

\* C11: whenever some sample's E-row B channel is not NaN, the snapshot
\* built before scaling holds, for any number of e34 samples, (-C, B, Z) of
\* the same sample for every e34 sample and (B, C, sigma) for every other
\* sample, and building it leaves the raw E rows that are then scaled and
\* stored as th<probe>_fit_efit untouched.
C11_SnapshotTriples ==
    [][(/\ last'.op = "cal_fit" /\ last'.found
        /\ ncalls' = ncalls + 1
        /\ last'.locals.e12_ss # <<>>
        /\ \E j \in DOMAIN store[TName(last'.probe, "_fit")].y :
              ~IsNaN(ERow(store[TName(last'.probe, "_fit")].y[j])[2]))
         => LET p == last'.probe
                raw == store[TName(p, "_fit")]
            IN  /\ Len(last'.efs) = Len(raw.y)
                /\ \A j \in DOMAIN raw.y : last'.efs[j] = SnapshotRow(store, p, j)
                /\ \A j \in DOMAIN raw.y :
                      store'[TName(p, "_fit_efit")].y[j] =
                          CASE RegimeOf(store, p, j) = "e12" ->
                                   EScaleRow(cpar.e12, ERow(raw.y[j]))
                            [] RegimeOf(store, p, j) = "e34" ->
                                   EScaleRow(cpar.e34, ERow(raw.y[j]))
                            [] OTHER -> ERow(raw.y[j])]_vars

\* the last call fetched the calibration file and entered the restriction
\* of the table to the record range t1[-1]..t2[-1]
EnteredRestriction ==
    /\ Called
    /\ last.nfiles = 1
    /\ RangeGuard(T1(TableOf(last.probe), FitOf(last.probe).x),
                  T2(TableOf(last.probe), FitOf(last.probe).x))

\* C12: whenever a call enters the table restriction (the guard on the two
\* record counts is true), the records strictly before the first sample and
\* the records at or before the last sample are both non-empty, and taking
\* the last of each does not fail: the call goes on to compute the offsets.
C12_RangeEndsExist ==
    EnteredRestriction =>
        /\ T1(TableOf(last.probe), FitOf(last.probe).x) # {}
        /\ T2(TableOf(last.probe), FitOf(last.probe).x) # {}
        /\ last.locals.Bzoffset # <<>>

\* the number of times file f was handed to cdf_to_tplot during the call
TimesPassed(f) ==
    LET n(k) == Cardinality({i \in DOMAIN ect.passes[k] : ect.passes[k][i] = f})
        sum[k \in 0..Len(ect.passes)] == IF k = 0 THEN 0 ELSE sum[k - 1] + n(k)
    IN  sum[Len(ect.passes)]

\* a completed call with a list of distinct probes, a valid level,
\* downloadonly false and notplot false
PlainEctCall ==
    /\ ect.op = "ect_combined"
    /\ ect.probe # <<>>
    /\ \A i, j \in DOMAIN ect.probe : i # j => ect.probe[i] # ect.probe[j]
    /\ ect.level \in {"l2", "l3"}
    /\ ~ect.downloadonly
    /\ ~ect.notplot

\* C13: in such a call every downloaded file is handed to cdf_to_tplot
\* exactly once, and the returned list names each created variable once.
C13_EachFileIngestedOnce ==
    PlainEctCall =>
        /\ ect.outcome = "returned"
        /\ \A k \in DOMAIN ect.out_files : TimesPassed(ect.out_files[k]) = 1
        /\ \A i, j \in DOMAIN ect.tvars : i # j => ect.tvars[i] # ect.tvars[j]
        /\ Range(ect.tvars) = {VarOf(ect.out_files[k]) : k \in DOMAIN ect.out_files}

====
